---- MODULE Spec2Model ----
(***************************************************************************)
(* Model of the listing ingestion and deduplication pipeline of            *)
(* src/src/index.ts (the second, current version of the program, lines     *)
(* 229-476): main, processSearchHousesByChat,                              *)
(* retrieveHousesDataFromFilterLink, retrieveHouseCardInfo, retrieveSpecs, *)
(* convertIntoClp, chunkArray, sendMessageToTelegram and                   *)
(* updateAlreadySeenHouses.                                                *)
(*                                                                         *)
(* Strings are sequences of one-character strings, so that split,          *)
(* replace, match and parseInt are computed as JavaScript computes them.   *)
(* JavaScript numbers are records: Num(n) for an integer, NaN for          *)
(* not-a-number.  null / undefined is the value Null.                      *)
(***************************************************************************)
EXTENDS Integers, Sequences, FiniteSets, TLC

\* ------------------------------------------------------------------------
\* JavaScript values
\* ------------------------------------------------------------------------

\* null / undefined (an element the page does not have, a regex that does
\* not match)
Null == <<"null">>

\* the number NaN
NaN == [nan |-> TRUE, val |-> 0]

\* the integer number n
Num(n) == [nan |-> FALSE, val |-> n]

IsNaN(x) == x.nan

\* a + b on numbers: NaN when either side is NaN
JsAdd(a, b) == IF a.nan \/ b.nan THEN NaN ELSE Num(a.val + b.val)

\* a * b on numbers: NaN when either side is NaN
JsMul(a, b) == IF a.nan \/ b.nan THEN NaN ELSE Num(a.val * b.val)

\* a < b on numbers: false when either side is NaN
JsLess(a, b) == ~a.nan /\ ~b.nan /\ a.val < b.val

\* truthiness of a string-or-null value: null, undefined and "" are falsy
Truthy(s) == s # Null /\ s # <<>>

\* s ?? d
OrElse(s, d) == IF s = Null THEN d ELSE s

Digits == {"0", "1", "2", "3", "4", "5", "6", "7", "8", "9"}

DigitVal(c) ==
    CASE c = "0" -> 0 [] c = "1" -> 1 [] c = "2" -> 2 [] c = "3" -> 3
      [] c = "4" -> 4 [] c = "5" -> 5 [] c = "6" -> 6 [] c = "7" -> 7
      [] c = "8" -> 8 [] c = "9" -> 9

DigitChar(d) == <<"0", "1", "2", "3", "4", "5", "6", "7", "8", "9">>[d + 1]

\* the suffix of s from position i (1-based) on
Drop(s, i) == SubSeq(s, i, Len(s))

\* the number of leading characters of s that belong to the set cs
RECURSIVE LeadingRun(_, _)
LeadingRun(s, cs) ==
    IF s # <<>> /\ Head(s) \in cs THEN 1 + LeadingRun(Tail(s), cs) ELSE 0

\* the value of a string of decimal digits
RECURSIVE DigitsValue(_)
DigitsValue(s) ==
    IF s = <<>> THEN 0
    ELSE 10 * DigitsValue(SubSeq(s, 1, Len(s) - 1)) + DigitVal(s[Len(s)])

\* parseInt(s): leading white space is skipped, an optional sign is read,
\* then the longest run of decimal digits; anything after it is ignored;
\* no digit at all gives NaN.
ParseInt(s) ==
    LET t    == Drop(s, LeadingRun(s, {" "}) + 1)
        neg  == t # <<>> /\ Head(t) = "-"
        u    == IF t # <<>> /\ Head(t) \in {"-", "+"} THEN Tail(t) ELSE t
        n    == LeadingRun(u, Digits)
    IN  IF n = 0 THEN NaN
        ELSE Num((IF neg THEN -1 ELSE 1) * DigitsValue(SubSeq(u, 1, n)))

\* the decimal digits of a natural number
RECURSIVE NatToString(_)
NatToString(n) ==
    IF n < 10 THEN <<DigitChar(n)>>
    ELSE NatToString(n \div 10) \o <<DigitChar(n % 10)>>

\* `${x}` for a number x
NumToString(x) ==
    IF x.nan THEN <<"N", "a", "N">>
    ELSE IF x.val < 0 THEN <<"-">> \o NatToString(-x.val)
    ELSE NatToString(x.val)

\* s.replace(/\./g, "")
RECURSIVE RemoveDots(_)
RemoveDots(s) ==
    IF s = <<>> THEN <<>>
    ELSE IF Head(s) = "." THEN RemoveDots(Tail(s))
    ELSE <<Head(s)>> \o RemoveDots(Tail(s))

\* s.split("#")[0]: the characters before the first "#"
StripFragment(s) == SubSeq(s, 1, LeadingRun(s, {c \in {s[i] : i \in DOMAIN s} : c # "#"}))

\* s.match(/\$\s*([0-9.]+)/): group 1 of the leftmost match, or Null
RECURSIVE MatchFee(_)
MatchFee(s) ==
    IF s = <<>> THEN Null
    ELSE IF Head(s) = "$"
         THEN LET t == Drop(Tail(s), LeadingRun(Tail(s), {" "}) + 1)
                  n == LeadingRun(t, Digits \cup {"."})
              IN  IF n > 0 THEN SubSeq(t, 1, n) ELSE MatchFee(Tail(s))
         ELSE MatchFee(Tail(s))

\* ------------------------------------------------------------------------
\* Pure functions of the program
\* ------------------------------------------------------------------------

\* process.env.UF_VALUE is not set: the default text is used
EnvUfValue == Null

\* const UF_VALUE = parseInt(process.env.UF_VALUE ?? "38000")
UF_VALUE == ParseInt(OrElse(EnvUfValue, <<"3", "8", "0", "0", "0">>))

\* convertIntoClp with the separators left in: parseInt stops at the first one
convertIntoClpKeepDots(rawPrice, unitPrice) ==
    IF unitPrice = <<"U", "F">> THEN JsMul(ParseInt(rawPrice), UF_VALUE)
    ELSE ParseInt(rawPrice)

\* convertIntoClp(rawPrice, unitPrice)
convertIntoClp(rawPrice, unitPrice) ==
    LET price == RemoveDots(rawPrice)
    IN  IF unitPrice = <<"U", "F">> THEN JsMul(ParseInt(price), UF_VALUE)
        ELSE ParseInt(price)

\* retrieveSpecs: the maintenance fee is group 1 of the match of
\* /\$\s*([0-9.]+)/ in the fee label's text ("" when the page has no such
\* label), or null
retrieveSpecsFee(feeLabel) == MatchFee(OrElse(feeLabel, <<>>))

\* The HouseData record retrieveHouseCardInfo returns for a detail page
\* whose elements were all read (description, area, dorm and bathroom counts
\* are carried through untouched and are left out).
MakeHouseData(url, page) ==
    LET price      == page.price
        unitPrice  == OrElse(page.unit, <<>>)
        priceInClp == convertIntoClp(OrElse(price, <<"0">>), unitPrice)
    IN  [url            |-> url,
         rentPrice      |-> IF Truthy(price) THEN NumToString(priceInClp) ELSE Null,
         maintenanceFee |-> retrieveSpecsFee(page.fee)]

\* the predicate of housesData.filter(...) in retrieveHousesDataFromFilterLink
PassesBudget(house, maxPrice) ==
    JsLess(JsAdd(ParseInt(OrElse(house.rentPrice, <<"0">>)),
                 ParseInt(OrElse(house.maintenanceFee, <<"0">>))),
           Num(maxPrice))

\* housesData.filter(pred), pred true of the houses in keep
RECURSIVE FilterSeq(_, _)
FilterSeq(s, keep) ==
    IF s = <<>> THEN <<>>
    ELSE IF Head(s) \in keep THEN <<Head(s)>> \o FilterSeq(Tail(s), keep)
    ELSE FilterSeq(Tail(s), keep)

\* BudgetFilter with the filter lost: every extracted listing is returned
BudgetFilterNone(houses, maxPrice) == houses

\* the value retrieveHousesDataFromFilterLink returns
BudgetFilter(houses, maxPrice) ==
    FilterSeq(houses,
              {h \in {houses[i] : i \in DOMAIN houses} : PassesBudget(h, maxPrice)})

\* PushAll with the link's listings put in front (unshift for push)
PushAllInFront(allData, housesFromLink) == housesFromLink \o allData

\* allHousesLinkData.push(...housesFromLink)
PushAll(allData, housesFromLink) == allData \o housesFromLink

\* array.slice(from, to) with 0-based from >= 0 and a number to
\* (NaN counts as 0, a negative to counts from the end)
Slice(array, from, to) ==
    LET n  == Len(array)
        t0 == IF to.nan THEN 0 ELSE to.val
        t1 == IF t0 < 0 THEN (IF n + t0 < 0 THEN 0 ELSE n + t0)
              ELSE IF t0 > n THEN n ELSE t0
    IN  SubSeq(array, from + 1, t1)

\* chunkArray never leaves its loop: the index does not advance (size 0) or
\* moves below 0 (a negative size) while the array is not empty
ChunkDiverges(array, chunkSize) ==
    Len(array) > 0 /\ ~chunkSize.nan /\ chunkSize.val <= 0

\* the loop of chunkArray from index i on
RECURSIVE ChunkFrom(_, _, _)
ChunkFrom(array, chunkSize, i) ==
    IF i.nan \/ ~(i.val < Len(array)) THEN <<>>
    ELSE <<Slice(array, i.val, JsAdd(i, chunkSize))>>
         \o ChunkFrom(array, chunkSize, JsAdd(i, chunkSize))

\* chunkArray with its loop started at index 1
chunkArrayFromOne(array, chunkSize) == ChunkFrom(array, chunkSize, Num(1))

\* chunkArray(array, chunkSize), where it returns
chunkArray(array, chunkSize) == ChunkFrom(array, chunkSize, Num(0))

\* formatMessage: one block per listing, in order; a block carries the
\* listing's URL (and its other fields, unchanged)
formatMessage(dataMessage) ==
    [i \in DOMAIN dataMessage |-> [url |-> dataMessage[i].url]]

\* IsHouseAlreadySeen with the lookup lost: no URL is ever found seen
IsHouseAlreadySeenNever(alreadySeenHouses, url) == FALSE

\* alreadySeenHouses[url ?? ""] in retrieveHouseCardInfo
IsHouseAlreadySeen(alreadySeenHouses, url) == url \in alreadySeenHouses

\* MarkSeen with the URLs marked in every chat's alreadySeenHouses
MarkSeenEveryChat(store, chat, houses) ==
    [g \in DOMAIN store |->
        [store[g] EXCEPT !.alreadySeenHouses = @ \cup {houses[i].url : i \in DOMAIN houses}]]

\* MarkSeen with the chat's alreadySeenHouses built anew from the houses
\* instead of added to
MarkSeenReplacing(store, chat, houses) ==
    [store EXCEPT ![chat].alreadySeenHouses = {houses[i].url : i \in DOMAIN houses}]

\* the store updateAlreadySeenHouses writes: the store it has just read,
\* with every house's URL marked in the chat's alreadySeenHouses
MarkSeen(store, chat, houses) ==
    [store EXCEPT ![chat].alreadySeenHouses =
        @ \cup {houses[i].url : i \in DOMAIN houses}]

\* ------------------------------------------------------------------------
\* The environment: configuration, search pages, detail pages
\* ------------------------------------------------------------------------

\* longest search page (number of result cards) of the first search link
MaxCards == 2

UrlA == <<"a">>
UrlB == <<"b">>
UrlC == <<"c">>
Urls == {UrlA, UrlB, UrlC}

\* href of a card's first anchor: a listing URL, possibly with a fragment
HrefAFrag == <<"a", "#", "x">>

Links == {"L1", "L2"}

\* the order in which for (const chatid in dataStore) visits the groups
GroupOrder == <<"g1", "g2">>
Groups == {GroupOrder[i] : i \in DOMAIN GroupOrder}

\* all sequences over S of length at most n
SeqsUpTo(S, n) == UNION {[1..k -> S] : k \in 0..n}

\* the result cards of the two search pages, as the hrefs of their first
\* anchors (Null: the card has no anchor)
SearchPagesL1 == SeqsUpTo({UrlA, UrlB}, MaxCards)
SearchPagesL2 == {<<UrlC>>, <<Null, HrefAFrag>>}

\* what a detail page shows: the text of the first price fraction, of the
\* currency symbol and of the maintenance-fee label (Null: no such element)
Detail(price, unit, fee) == [price |-> price, unit |-> unit, fee |-> fee]
DetailsA ==
    { Detail(<<"2">>, <<"$">>, Null),
      Detail(<<"2">>, <<"$">>, <<"g", "c", " ", "$", " ", "1">>),
      Detail(Null, Null, <<"$", "1">>),
      Detail(<<"1">>, <<"$">>, <<"$", "1", ".", "0", "0", "0">>),
      Detail(<<"1">>, <<"U", "F">>, <<"$", "1">>),
      Detail(<<"1">>, <<"U", "F">>, <<"$", "2">>),
      Detail(<<"k">>, <<"$">>, Null) }
DetailsB == { Detail(<<"1">>, <<"$">>, <<"$", "1">>) }
DetailsC == { Detail(<<"1">>, <<"$">>, Null) }

\* process.env.CHUNK_SIZE: not set, "", "0", "1" or "2"
EnvChunkSizes == {Null, <<>>, <<"0">>, <<"2">>}

\* dataStore.json as configured before the first run
InitialStore ==
    [g \in Groups |->
        IF g = "g1"
        THEN [searchLinks |-> <<"L1", "L2">>, maxPrice |-> 3,
              alreadySeenHouses |-> {}]
        ELSE [searchLinks |-> <<"L2", "L1">>, maxPrice |-> 38002,
              alreadySeenHouses |-> {UrlB}]]

VARIABLES
    searchPage,         \* environment: link -> hrefs of the result cards
    detailPage,         \* environment: listing URL -> what its page shows
    envChunkSize,       \* environment: process.env.CHUNK_SIZE
    dataStoreFile,      \* dataStore.json
    dataStore,          \* main's dataStore, read once at the start of a run
    pc,                 \* where the run is
    gi,                 \* main: index of the current group in GroupOrder
    li,                 \* processSearchHousesByChat: index of the current link
    ci,                 \* retrieveHousesDataFromFilterLink: index of the next card
    housesData,         \* retrieveHousesDataFromFilterLink: housesData
    allHousesLinkData,  \* processSearchHousesByChat: allHousesLinkData
    chunkedData,        \* processSearchHousesByChat: chunkedData
    bi,                 \* index of the next chunk to send
    openPages,          \* detail pages open in the current browser
    navs,               \* history: detail URLs navigated to for the current group
    calls,              \* history: delivery calls made for the current group
    okPos,              \* history: <<link, card>> extracted for the current group
    queued,             \* history: group -> listings chunked in this run
    persistedEver,      \* history: group -> URLs collected in a run of which no delivery failed
    rejected,           \* history: group -> URLs the budget filter dropped in this run
    rejectedPrev        \* history: group -> URLs the budget filter dropped in an earlier run

envVars  == <<searchPage, detailPage, envChunkSize>>
progVars == <<dataStoreFile, dataStore, pc, gi, li, ci, housesData,
              allHousesLinkData, chunkedData, bi, openPages>>
histVars == <<navs, calls, okPos, queued, persistedEver,
              rejected, rejectedPrev>>
vars == <<envVars, progVars, histVars>>

\* const CHUNK_SIZE = parseInt(process.env.CHUNK_SIZE ?? "1")
CHUNK_SIZE == ParseInt(OrElse(envChunkSize, <<"1">>))

NoUrls == [g \in Groups |-> {}]
NoSeqs == [g \in Groups |-> <<>>]

\* the state before the first run, for one environment
InitWith(pages, details, env) ==
    /\ searchPage = pages
    /\ detailPage = details
    /\ envChunkSize = env
    /\ dataStoreFile = InitialStore
    /\ dataStore = InitialStore
    /\ pc = "idle"
    /\ gi = 1 /\ li = 1 /\ ci = 1 /\ bi = 1
    /\ housesData = <<>>
    /\ allHousesLinkData = <<>>
    /\ chunkedData = <<>>
    /\ openPages = 0
    /\ navs = {} /\ calls = <<>> /\ okPos = {} /\ queued = NoSeqs
    /\ persistedEver = NoUrls
    /\ rejected = NoUrls /\ rejectedPrev = NoUrls

\* the plain detail page: price 2, unit $, no maintenance fee
PlainDetail == Detail(<<"2">>, <<"$">>, Null)

\* Every pair of search pages under the plain detail page of listing a and
\* the default chunk size; and, with the second page of listing c, every
\* first search page with every chunk size and with every detail page of
\* listing a.
Init ==
    \E p1 \in SearchPagesL1, p2 \in SearchPagesL2, da \in DetailsA,
       db \in DetailsB, dc \in DetailsC, env \in EnvChunkSizes :
        /\ \/ da = PlainDetail /\ env = Null
           \/ p2 = <<UrlC>> /\ (da = PlainDetail \/ env = Null)
        /\ InitWith([l \in Links |-> IF l = "L1" THEN p1 ELSE p2],
                    [u \in Urls |-> IF u = UrlA THEN da ELSE IF u = UrlB THEN db ELSE dc],
                    env)

\* ------------------------------------------------------------------------
\* The run
\* ------------------------------------------------------------------------

chatId == GroupOrder[gi]
searchConfig == dataStore[chatId]
houseLink == searchConfig.searchLinks[li]
allHouseCards == searchPage[houseLink]

\* rawUrl.split("#")[0] of the card about to be processed
CardUrl(href) == StripFragment(OrElse(href, <<>>))

\* SkipsCard with only the empty-URL test left
SkipsCardOnlyEmpty(url, alreadySeenHouses) == ~Truthy(url)

\* if (!url || isHouseAlreadySeen) return null
SkipsCard(url, alreadySeenHouses) ==
    ~Truthy(url) \/ IsHouseAlreadySeen(alreadySeenHouses, url)

\* the URLs of a list of listings
UrlsOf(houses) == {houses[i].url : i \in DOMAIN houses}

\* main is entered: the store is read, the first group's browser is launched
StartRun ==
    /\ pc \in {"idle", "done", "aborted", "hung"}
    /\ dataStore' = dataStoreFile
    /\ pc' = "link"
    /\ gi' = 1 /\ li' = 1 /\ ci' = 1 /\ bi' = 1
    /\ housesData' = <<>>
    /\ allHousesLinkData' = <<>>
    /\ chunkedData' = <<>>
    /\ openPages' = 0
    /\ navs' = {} /\ calls' = <<>> /\ okPos' = {} /\ queued' = NoSeqs
    /\ rejected' = NoUrls
    /\ rejectedPrev' = [g \in Groups |-> rejectedPrev[g] \cup rejected[g]]
    /\ UNCHANGED <<envVars, dataStoreFile, persistedEver>>

\* retrieveHousesDataFromFilterLink: the search page is opened and its
\* cards are read
OpenSearchPage ==
    /\ pc = "link"
    /\ pc' = "card"
    /\ ci' = 1
    /\ housesData' = <<>>
    /\ UNCHANGED <<envVars, histVars, dataStoreFile, dataStore, gi, li,
                   allHousesLinkData, chunkedData, bi, openPages>>

\* page.goto(url) or page.$$ throws: nothing catches it, the run ends
SearchPageFails ==
    /\ pc = "link"
    /\ pc' = "aborted"
    /\ UNCHANGED <<envVars, histVars, dataStoreFile, dataStore, gi, li, ci,
                   housesData, allHousesLinkData, chunkedData, bi, openPages>>

\* retrieveHouseCardInfo returns null before any page is opened
CardSkipped ==
    /\ pc = "card" /\ ci <= Len(allHouseCards)
    /\ SkipsCard(CardUrl(allHouseCards[ci]), searchConfig.alreadySeenHouses)
    /\ ci' = ci + 1
    /\ UNCHANGED <<envVars, histVars, dataStoreFile, dataStore, pc, gi, li,
                   housesData, allHousesLinkData, chunkedData, bi, openPages>>

\* retrieveHouseCardInfo opens the detail page, reads it, closes it and
\* returns the listing
CardExtracted ==
    /\ pc = "card" /\ ci <= Len(allHouseCards)
    /\ LET url == CardUrl(allHouseCards[ci])
       IN  /\ ~SkipsCard(url, searchConfig.alreadySeenHouses)
           /\ navs' = navs \cup {url}
           /\ okPos' = okPos \cup {<<li, ci>>}
           /\ housesData' = Append(housesData, MakeHouseData(url, detailPage[url]))
    /\ ci' = ci + 1
    /\ UNCHANGED <<envVars, dataStoreFile, dataStore, pc, gi, li,
                   allHousesLinkData, chunkedData, bi, openPages, calls, queued,
                   persistedEver, rejected,
                   rejectedPrev>>

\* CardExtractionFails with the catch lost: the failure ends the run
CardExtractionFailsAborting ==
    /\ pc = "card" /\ ci <= Len(allHouseCards)
    /\ LET url == CardUrl(allHouseCards[ci])
       IN  /\ ~SkipsCard(url, searchConfig.alreadySeenHouses)
           /\ navs' = navs \cup {url}
    /\ openPages' = openPages + 1
    /\ pc' = "aborted"
    /\ UNCHANGED <<envVars, dataStoreFile, dataStore, gi, li, ci, housesData,
                   allHousesLinkData, chunkedData, bi, calls, okPos, queued,
                   persistedEver, rejected, rejectedPrev>>

\* retrieveHouseCardInfo opens the detail page, then goto or an element
\* lookup throws: the catch returns null and the page stays open
CardExtractionFails ==
    /\ pc = "card" /\ ci <= Len(allHouseCards)
    /\ LET url == CardUrl(allHouseCards[ci])
       IN  /\ ~SkipsCard(url, searchConfig.alreadySeenHouses)
           /\ navs' = navs \cup {url}
    /\ openPages' = openPages + 1
    /\ ci' = ci + 1
    /\ UNCHANGED <<envVars, dataStoreFile, dataStore, pc, gi, li, housesData,
                   allHousesLinkData, chunkedData, bi, calls, okPos, queued,
                   persistedEver, rejected,
                   rejectedPrev>>

\* the search page is closed, the budget filter is applied and the link's
\* listings are pushed onto allHousesLinkData
CloseSearchPage ==
    /\ pc = "card" /\ ci > Len(allHouseCards)
    /\ LET housesFromLink == BudgetFilter(housesData, searchConfig.maxPrice)
       IN  /\ allHousesLinkData' = PushAll(allHousesLinkData, housesFromLink)
           /\ rejected' = [rejected EXCEPT ![chatId] = @ \cup
                  {housesData[i].url : i \in {j \in DOMAIN housesData :
                      ~PassesBudget(housesData[j], searchConfig.maxPrice)}}]
    /\ housesData' = <<>>
    /\ li' = li + 1
    /\ ci' = 1
    /\ pc' = IF li = Len(searchConfig.searchLinks) THEN "chunk" ELSE "link"
    /\ UNCHANGED <<envVars, dataStoreFile, dataStore, gi, chunkedData, bi,
                   openPages, navs, calls, okPos, queued, persistedEver, rejectedPrev>>

\* chunkArray(allHousesLinkData, CHUNK_SIZE) returns
ChunkListings ==
    /\ pc = "chunk"
    /\ ~ChunkDiverges(allHousesLinkData, CHUNK_SIZE)
    /\ chunkedData' = chunkArray(allHousesLinkData, CHUNK_SIZE)
    /\ bi' = 1
    /\ pc' = "send"
    /\ queued' = [queued EXCEPT ![chatId] = allHousesLinkData]
    /\ UNCHANGED <<envVars, dataStoreFile, dataStore, gi, li, ci, housesData,
                   allHousesLinkData, openPages, navs, calls, okPos, persistedEver, rejected, rejectedPrev>>

\* chunkArray(allHousesLinkData, CHUNK_SIZE) never returns: the run makes no
\* further step
ChunkHangs ==
    /\ pc = "chunk"
    /\ ChunkDiverges(allHousesLinkData, CHUNK_SIZE)
    /\ pc' = "hung"
    /\ UNCHANGED <<envVars, histVars, dataStoreFile, dataStore, gi, li, ci,
                   housesData, allHousesLinkData, chunkedData, bi, openPages>>

\* a delivery call: axios.post(url, {chat_id, text})
DeliveryCall(dataMessage, ok) ==
    [chat_id |-> chatId, text |-> formatMessage(dataMessage), ok |-> ok]

\* the URLs a delivery call's body carries
CallUrls(call) == {call.text[i].url : i \in DOMAIN call.text}

\* sendMessageToTelegram with an empty chunk: "No data to send", no call
SendNothing ==
    /\ pc = "send" /\ bi <= Len(chunkedData)
    /\ Len(chunkedData[bi]) = 0
    /\ bi' = bi + 1
    /\ UNCHANGED <<envVars, histVars, dataStoreFile, dataStore, pc, gi, li, ci,
                   housesData, allHousesLinkData, chunkedData, openPages>>

\* sendMessageToTelegram: the post succeeds
SendDelivered ==
    /\ pc = "send" /\ bi <= Len(chunkedData)
    /\ Len(chunkedData[bi]) # 0
    /\ calls' = Append(calls, DeliveryCall(chunkedData[bi], TRUE))
    /\ bi' = bi + 1
    /\ UNCHANGED <<envVars, dataStoreFile, dataStore, pc, gi, li, ci, housesData,
                   allHousesLinkData, chunkedData, openPages, navs, okPos,
                   queued, persistedEver, rejected,
                   rejectedPrev>>

\* SendFails with the failure caught and logged: the loop goes on to the
\* next chunk
SendFailsSwallowed ==
    /\ pc = "send" /\ bi <= Len(chunkedData)
    /\ Len(chunkedData[bi]) # 0
    /\ calls' = Append(calls, DeliveryCall(chunkedData[bi], FALSE))
    /\ bi' = bi + 1
    /\ UNCHANGED <<envVars, dataStoreFile, dataStore, pc, gi, li, ci, housesData,
                   allHousesLinkData, chunkedData, openPages, navs, okPos,
                   queued, persistedEver, rejected, rejectedPrev>>

\* sendMessageToTelegram: the post throws; nothing catches it, so
\* processSearchHousesByChat and main end there
SendFails ==
    /\ pc = "send" /\ bi <= Len(chunkedData)
    /\ Len(chunkedData[bi]) # 0
    /\ calls' = Append(calls, DeliveryCall(chunkedData[bi], FALSE))
    /\ pc' = "aborted"
    /\ UNCHANGED <<envVars, dataStoreFile, dataStore, gi, li, ci, bi, housesData,
                   allHousesLinkData, chunkedData, openPages, navs, okPos,
                   queued, persistedEver, rejected,
                   rejectedPrev>>

\* updateAlreadySeenHouses with the store main loaded written back in place
\* of the one read at the call
updateAlreadySeenHousesFromLoaded(houses) ==
    dataStoreFile' = MarkSeen(dataStore, chatId, houses)

\* updateAlreadySeenHouses(chatId, housesData): the store is read again,
\* the URLs are marked and the store is written back
updateAlreadySeenHouses(houses) ==
    dataStoreFile' = MarkSeen(dataStoreFile, chatId, houses)

\* every chunk was sent: the browser is closed and the store is updated
PersistGroup ==
    /\ pc = "send" /\ bi > Len(chunkedData)
    /\ openPages' = 0
    /\ updateAlreadySeenHouses(allHousesLinkData)
    /\ persistedEver' = [persistedEver EXCEPT ![chatId] = @ \cup UrlsOf(allHousesLinkData)]
    /\ pc' = "next"
    /\ UNCHANGED <<envVars, dataStore, gi, li, ci, bi, housesData,
                   allHousesLinkData, chunkedData, navs, calls, okPos, queued,
                   rejected, rejectedPrev>>

\* processSearchHousesByChat has returned: main goes on to the next group,
\* whose browser is launched, or returns
NextGroup ==
    /\ pc = "next"
    /\ gi' = IF gi = Len(GroupOrder) THEN gi ELSE gi + 1
    /\ li' = 1 /\ ci' = 1 /\ bi' = 1
    /\ housesData' = <<>>
    /\ allHousesLinkData' = <<>>
    /\ chunkedData' = <<>>
    /\ navs' = {} /\ calls' = <<>> /\ okPos' = {}
    /\ pc' = IF gi = Len(GroupOrder) THEN "done" ELSE "link"
    /\ UNCHANGED <<envVars, dataStoreFile, dataStore, openPages, queued,
                   persistedEver, rejected, rejectedPrev>>

Next ==
    \/ StartRun
    \/ OpenSearchPage
    \/ SearchPageFails
    \/ CardSkipped
    \/ CardExtracted
    \/ CardExtractionFails
    \/ CloseSearchPage
    \/ ChunkListings
    \/ ChunkHangs
    \/ SendNothing
    \/ SendDelivered
    \/ SendFails
    \/ PersistGroup
    \/ NextGroup

Spec == Init /\ [][Next]_vars

\* ------------------------------------------------------------------------
\* chunkArray alone, on every list of at most MaxLen listings
\* ------------------------------------------------------------------------

\* longest list chunkArray is applied to
MaxLen == 4

\* process.env.CHUNK_SIZE for sizes 1 (not set), 2 and 3
EnvChunkSizesFrom1 == {Null, <<"2">>, <<"3">>}

SomeHouses ==
    { [url |-> UrlA, rentPrice |-> <<"1">>, maintenanceFee |-> Null],
      [url |-> UrlB, rentPrice |-> Null, maintenanceFee |-> <<"1">>] }

InitChunk ==
    \E list \in SeqsUpTo(SomeHouses, MaxLen), env \in EnvChunkSizesFrom1 :
        /\ searchPage = [l \in Links |-> <<>>]
        /\ detailPage = [u \in Urls |-> Detail(Null, Null, Null)]
        /\ envChunkSize = env
        /\ dataStoreFile = InitialStore
        /\ dataStore = InitialStore
        /\ pc = "chunk"
        /\ gi = 1 /\ li = 3 /\ ci = 1 /\ bi = 1
        /\ housesData = <<>>
        /\ allHousesLinkData = list
        /\ chunkedData = <<>>
        /\ openPages = 0
        /\ navs = {} /\ calls = <<>> /\ okPos = {} /\ queued = NoSeqs
        /\ persistedEver = NoUrls
        /\ rejected = NoUrls /\ rejectedPrev = NoUrls

NextChunk == ChunkListings

SpecChunk == InitChunk /\ [][NextChunk]_vars

\* ------------------------------------------------------------------------
\* convertIntoClp alone, on every price text of at most MaxPriceLen
\* characters, as retrieveHouseCardInfo applies it to one detail page
\* ------------------------------------------------------------------------

\* longest price text convertIntoClp is applied to
MaxPriceLen == 5

\* the characters of the price texts
PriceChars == {"0", "2", "5", ".", "k"}

\* the texts of the currency symbol (Null: the page has no such element)
UnitTexts == {<<"$">>, <<"U", "F">>, <<"U", "$", "S">>, Null}

\* the texts of the price fraction (Null: the page has no such element):
\* at most five digits, so that the amount times the
\* exchange rate stays within the integers the model computes exactly
PriceTexts ==
    {t \in SeqsUpTo(PriceChars, MaxPriceLen) :
        Cardinality({i \in DOMAIN t : t[i] \in Digits}) <= 5} \cup {Null}

InitPrice ==
    \E price \in PriceTexts, unit \in UnitTexts :
        /\ searchPage = [l \in Links |-> IF l = "L1" THEN <<UrlA>> ELSE <<>>]
        /\ detailPage = [u \in Urls |-> IF u = UrlA THEN Detail(price, unit, Null)
                                        ELSE Detail(Null, Null, Null)]
        /\ envChunkSize = Null
        /\ dataStoreFile = InitialStore
        /\ dataStore = InitialStore
        /\ pc = "card"
        /\ gi = 1 /\ li = 1 /\ ci = 1 /\ bi = 1
        /\ housesData = <<>>
        /\ allHousesLinkData = <<>>
        /\ chunkedData = <<>>
        /\ openPages = 0
        /\ navs = {} /\ calls = <<>> /\ okPos = {} /\ queued = NoSeqs
        /\ persistedEver = NoUrls
        /\ rejected = NoUrls /\ rejectedPrev = NoUrls

NextPrice == CardExtracted

SpecPrice == InitPrice /\ [][NextPrice]_vars

\* ------------------------------------------------------------------------
\* The run next to another writer of dataStore.json
\* ------------------------------------------------------------------------

\* one pair of search pages and the plain detail pages, every chunk size
InitMark ==
    \E env \in EnvChunkSizes, db \in DetailsB, dc \in DetailsC :
        InitWith([l \in Links |-> IF l = "L1" THEN <<UrlA, UrlB>> ELSE <<UrlC>>],
                 [u \in Urls |-> IF u = UrlA THEN PlainDetail ELSE IF u = UrlB THEN db ELSE dc],
                 env)

\* while a run is at work on a group, someone else (another instance, an
\* edit by hand) marks a listing seen for a group in dataStore.json
ExternalAdd ==
    /\ pc \in {"link", "card", "chunk", "send"}
    /\ \E g \in Groups, u \in Urls :
           /\ u \notin dataStoreFile[g].alreadySeenHouses
           /\ dataStoreFile' = [dataStoreFile EXCEPT ![g].alreadySeenHouses = @ \cup {u}]
    /\ UNCHANGED <<envVars, histVars, dataStore, pc, gi, li, ci, housesData,
                   allHousesLinkData, chunkedData, bi, openPages>>

NextMark ==
    \/ Next
    \/ ExternalAdd

SpecMark == InitMark /\ [][NextMark]_vars

\* ------------------------------------------------------------------------
\* Properties
\* ------------------------------------------------------------------------

\* a run is at work on the current group
InGroup == pc \in {"link", "card", "chunk", "send", "next", "aborted", "hung"}

\* the search links of the current group and the cards of its l-th link
curLinks == searchConfig.searchLinks
CardsOf(l) == searchPage[curLinks[l]]

\* the fragment-stripped URL of the card at position <<link, card>>
UrlAt(pos) == CardUrl(CardsOf(pos[1])[pos[2]])

\* every card position of the current group
AllPos == UNION {{<<l, c>> : c \in DOMAIN CardsOf(l)} : l \in DOMAIN curLinks}

\* the card positions of the current group that have been processed
ProcessedPos == {pos \in AllPos : pos[1] < li \/ (pos[1] = li /\ pos[2] < ci)}

\* the groups main visits before / after the current one
EarlierGroups == {GroupOrder[i] : i \in {j \in DOMAIN GroupOrder : j < gi}}
LaterGroups == {GroupOrder[i] : i \in {j \in DOMAIN GroupOrder : j > gi}}

\* C1. Dedup-before-fetch: no detail page is navigated to, for a group in a
\* run, whose fragment-stripped URL is in the group's seen-set as loaded at
\* the start of the run.
C1_DedupBeforeFetch ==
    InGroup => navs \cap dataStore[chatId].alreadySeenHouses = {}

\* C1's case: a card whose URL is in the loaded seen-set has been processed,
\* next to a card that was fetched
C1_Witness ==
    /\ pc = "next"
    /\ navs # {}
    /\ \E pos \in ProcessedPos : UrlAt(pos) \in dataStore[chatId].alreadySeenHouses

\* C2. At-most-once notification, as claimed: no two delivery calls to a
\* group carry the same listing URL.
C2_AtMostOnceClaimed ==
    \A i, j \in DOMAIN calls :
        i # j => CallUrls(calls[i]) \cap CallUrls(calls[j]) = {}

\* C3. Fail-fast propagation: once a delivery call of a group has failed,
\* it is the last call of the run, the run has ended, the group's stored
\* entry is the one loaded at the start of the run, no later group has been
\* processed, and every earlier group's seen-set holds what it collected.
C3_FailFast ==
    \A k \in DOMAIN calls :
        ~calls[k].ok =>
            /\ pc = "aborted"
            /\ k = Len(calls)
            /\ bi <= Len(chunkedData)
            /\ calls[k].text = formatMessage(chunkedData[bi])
            /\ dataStoreFile[chatId] = dataStore[chatId]
            /\ \A h \in LaterGroups :
                   dataStoreFile[h] = dataStore[h] /\ queued[h] = <<>>
            /\ \A e \in EarlierGroups :
                   dataStoreFile[e].alreadySeenHouses =
                       dataStore[e].alreadySeenHouses \cup UrlsOf(queued[e])

\* C3's case: the second of three batches of the second group fails, after
\* the first group has stored the listings it collected
C3_Witness ==
    /\ pc = "aborted"
    /\ gi = 2
    /\ Len(chunkedData) = 3
    /\ Len(calls) = 2 /\ calls[1].ok /\ ~calls[2].ok
    /\ queued["g1"] # <<>>
    /\ UrlsOf(queued["g1"]) \subseteq dataStoreFile["g1"].alreadySeenHouses

\* C4, as claimed: whether or not a delivery failed, at the end of a run
\* every URL collected into a group's batch queue in that run is in the
\* group's persisted seen-set.
C4_SeenIffCollectedClaimed ==
    pc \in {"done", "aborted"} =>
        \A g \in Groups : UrlsOf(queued[g]) \subseteq dataStoreFile[g].alreadySeenHouses

\* C4, amended. A group's persisted seen-set is its configured seen-set
\* plus exactly the URLs collected for it in runs of which no delivery call
\* to the group failed; the update is made once every batch of the group
\* has been sent without failure and records every collected listing; a run
\* that has ended in a failure has not touched the group's entry.
C4_SeenIffPersisted ==
    /\ \A g \in Groups :
           dataStoreFile[g].alreadySeenHouses =
               InitialStore[g].alreadySeenHouses \cup persistedEver[g]
    /\ pc = "next" =>
           /\ \A k \in DOMAIN calls : calls[k].ok
           /\ bi > Len(chunkedData)
           /\ dataStoreFile[chatId].alreadySeenHouses =
                  dataStore[chatId].alreadySeenHouses \cup UrlsOf(queued[chatId])
    /\ pc \in {"aborted", "hung"} => dataStoreFile[chatId] = dataStore[chatId]

\* C4's case: a group with a configured seen-set has stored what it
\* collected in one run, and a later run has collected a listing for it and
\* ended in a delivery failure
C4_Witness ==
    /\ pc = "aborted"
    /\ calls # <<>> /\ ~calls[Len(calls)].ok
    /\ chatId = "g2"
    /\ persistedEver["g2"] # {}
    /\ ~(UrlsOf(queued["g2"]) \subseteq dataStoreFile["g2"].alreadySeenHouses)

\* C5. Persistence scope: a URL the budget filter has dropped for a group,
\* in this run or an earlier one, is not in the group's persisted seen-set;
\* in a later run (same pages, same threshold) each card with such a URL is
\* navigated to again, and when its page is extracted the filter drops it
\* again.
C5_PersistenceScope ==
    /\ \A g \in Groups :
           (rejected[g] \cup rejectedPrev[g]) \cap dataStoreFile[g].alreadySeenHouses = {}
    /\ InGroup =>
           \A pos \in ProcessedPos :
               UrlAt(pos) \in rejectedPrev[chatId] =>
                   /\ UrlAt(pos) \in navs
                   /\ (pos \in okPos /\ pos[1] < li) =>
                          /\ UrlAt(pos) \in rejected[chatId]
                          /\ UrlAt(pos) \notin UrlsOf(allHousesLinkData)

\* C5's case: a URL dropped in an earlier run has been fetched and dropped
\* again in this run
C5_Witness ==
    /\ pc = "next"
    /\ \E pos \in okPos :
           /\ UrlAt(pos) \in rejectedPrev[chatId]
           /\ UrlAt(pos) \in rejected[chatId]
           /\ UrlAt(pos) \in navs
           /\ UrlAt(pos) \notin dataStoreFile[chatId].alreadySeenHouses

\* C6, as claimed: every URL a run has added to a group's persisted seen-set
\* was carried in the body of a delivery call made to the group in that run.
C6_SeenOnlyAfterSendClaimed ==
    pc = "next" =>
        \A u \in dataStoreFile[chatId].alreadySeenHouses \ dataStore[chatId].alreadySeenHouses :
            \E k \in DOMAIN calls : u \in CallUrls(calls[k])

\* a price or fee text made of digits and separators, with a digit
WellFormedAmount(text) ==
    /\ text # Null
    /\ \A i \in DOMAIN text : text[i] \in Digits \cup {"."}
    /\ \E i \in DOMAIN text : text[i] \in Digits

\* the normalized amount of a well-formed text: its digits, the thousands
\* separators removed
NormalizedAmount(text) == DigitsValue(RemoveDots(text))

\* the normalized rent of a detail page (0 when the page shows no price;
\* times the exchange rate when the unit is the inflation-indexed one)
NormalizedRent(page) ==
    IF ~Truthy(page.price) THEN 0
    ELSE IF page.unit = <<"U", "F">> THEN NormalizedAmount(page.price) * UF_VALUE.val
    ELSE NormalizedAmount(page.price)

\* the normalized maintenance fee of a detail page (0 when it shows none)
NormalizedFee(page) ==
    IF retrieveSpecsFee(page.fee) = Null THEN 0
    ELSE NormalizedAmount(retrieveSpecsFee(page.fee))

\* C7, as claimed: an extracted listing with well-formed (or absent) rent
\* and fee is collected for the group if and only if its normalized rent
\* plus its normalized maintenance fee is strictly less than the group's
\* maximum total cost.
C7_BudgetBoundaryClaimed ==
    InGroup =>
        \A pos \in okPos :
            LET page == detailPage[UrlAt(pos)]
            IN  (/\ pos[1] < li
                 /\ ~Truthy(page.price) \/ WellFormedAmount(page.price)
                 /\ retrieveSpecsFee(page.fee) = Null
                        \/ WellFormedAmount(retrieveSpecsFee(page.fee)))
                => (UrlAt(pos) \in UrlsOf(allHousesLinkData)
                       <=> NormalizedRent(page) + NormalizedFee(page) < searchConfig.maxPrice)

\* every candidate URL on the current group's search pages is in the
\* seen-set the run loaded
AllSeen ==
    \A pos \in AllPos :
        Truthy(UrlAt(pos)) => UrlAt(pos) \in dataStore[chatId].alreadySeenHouses

\* C8. Idempotence: while a run works on a group whose candidate URLs are
\* all in its loaded seen-set, nothing is navigated to, extracted, collected
\* or delivered for the group, chunking returns, and the stored entries are
\* the loaded ones, but for what the earlier groups of the run have added to
\* their own seen-sets.
C8_Idempotence ==
    (InGroup /\ AllSeen) =>
        /\ navs = {} /\ okPos = {} /\ calls = <<>>
        /\ housesData = <<>> /\ allHousesLinkData = <<>> /\ chunkedData = <<>>
        /\ queued[chatId] = <<>>
        /\ pc # "hung"
        /\ dataStoreFile[chatId] = dataStore[chatId]
        /\ \A h \in LaterGroups : dataStoreFile[h] = dataStore[h]
        /\ \A e \in EarlierGroups :
               dataStoreFile[e] =
                   [dataStore[e] EXCEPT !.alreadySeenHouses = @ \cup UrlsOf(queued[e])]

\* C8's case: a group that stored listings in an earlier run has been
\* processed again, all of its candidates seen, and its update is done
C8_Witness ==
    /\ pc = "next"
    /\ AllSeen
    /\ persistedEver[chatId] # {}
    /\ \E pos \in AllPos : Truthy(UrlAt(pos))

\* the URLs, in search-link order and then in document order, of the cards
\* of the closed links from position <<l, c>> on that were extracted and are
\* within the group's budget
RECURSIVE ExpectedFrom(_, _)
ExpectedFrom(l, c) ==
    IF l >= li \/ l > Len(curLinks) THEN <<>>
    ELSE IF c > Len(CardsOf(l)) THEN ExpectedFrom(l + 1, 1)
    ELSE (IF /\ <<l, c>> \in okPos
             /\ PassesBudget(MakeHouseData(UrlAt(<<l, c>>), detailPage[UrlAt(<<l, c>>)]),
                             searchConfig.maxPrice)
          THEN <<UrlAt(<<l, c>>)>>
          ELSE <<>>) \o ExpectedFrom(l, c + 1)

ExpectedUrls == ExpectedFrom(1, 1)

UrlSeq(houses) == [i \in DOMAIN houses |-> houses[i].url]

MinOf(a, b) == IF a < b THEN a ELSE b

\* C9. Delivery ordering: whenever a search link has been closed, the
\* listings collected for the group are in search-link order and, within a
\* link, in document order; with a chunk
\* size n >= 1 the k-th delivery call carries, in order, listings
\* (k-1)n+1 .. kn of them, and once the group is done there has been one
\* call per batch (three calls of one listing each, in order A, B, C, for
\* chunk size 1 and listings [A, B, C]).
C9_DeliveryOrder ==
    pc \in {"link", "chunk", "send", "next"} =>
        /\ UrlSeq(allHousesLinkData) = ExpectedUrls
        /\ (pc \in {"send", "next"} /\ ~CHUNK_SIZE.nan /\ CHUNK_SIZE.val >= 1) =>
               LET n   == CHUNK_SIZE.val
                   all == UrlSeq(allHousesLinkData)
               IN  /\ \A k \in DOMAIN calls :
                          UrlSeq(calls[k].text) =
                              SubSeq(all, (k - 1) * n + 1, MinOf(k * n, Len(all)))
                   /\ pc = "next" => Len(calls) = (Len(all) + n - 1) \div n

\* C9's case: chunk size 1, listings [A, B, C] from two search links, three
\* delivery calls made
C9_Witness ==
    /\ pc = "next"
    /\ CHUNK_SIZE = Num(1)
    /\ UrlSeq(allHousesLinkData) = <<UrlA, UrlB, UrlC>>
    /\ Len(calls) = 3
    /\ \A k \in 1..3 : calls[k].ok /\ UrlSeq(calls[k].text) = <<allHousesLinkData[k].url>>

\* the chunks of a chunked list, put end to end
RECURSIVE Flatten(_)
Flatten(chunks) ==
    IF chunks = <<>> THEN <<>> ELSE Head(chunks) \o Flatten(Tail(chunks))

\* C10. Chunk partition: for a size n >= 1 the chunks chunkArray returns,
\* put end to end, are the list; every chunk but the last has n elements,
\* the last has between 1 and n; the empty list gives no chunk.
C10_ChunkPartition ==
    (pc = "send" /\ ~CHUNK_SIZE.nan /\ CHUNK_SIZE.val >= 1) =>
        LET n == CHUNK_SIZE.val
        IN  /\ Flatten(chunkedData) = allHousesLinkData
            /\ \A k \in DOMAIN chunkedData :
                   IF k < Len(chunkedData) THEN Len(chunkedData[k]) = n
                   ELSE Len(chunkedData[k]) >= 1 /\ Len(chunkedData[k]) <= n
            /\ allHousesLinkData = <<>> => chunkedData = <<>>

\* C10's case: a list cut into full chunks and a shorter last one
C10_Witness ==
    /\ pc = "send"
    /\ CHUNK_SIZE = Num(2)
    /\ Len(allHousesLinkData) = 3
    /\ Len(chunkedData) = 2
    /\ Len(chunkedData[2]) = 1

\* the value of a text of digits and separators, read left to right with
\* the separators passed over
RECURSIVE SeparatedValue(_, _)
SeparatedValue(text, acc) ==
    IF text = <<>> THEN acc
    ELSE IF Head(text) = "." THEN SeparatedValue(Tail(text), acc)
    ELSE SeparatedValue(Tail(text), 10 * acc + DigitVal(Head(text)))

\* the amount the price text of a detail page stands for: its value, times
\* 38000 exactly when the unit is the inflation-indexed one
ExpectedClp(page) ==
    IF page.unit = <<"U", "F">> THEN SeparatedValue(page.price, 0) * 38000
    ELSE SeparatedValue(page.price, 0)

\* C11. Price normalization: for every well-formed price text the
\* normalized amount is the non-negative integer the text stands for with
\* its separators removed, times the exchange rate exactly when the unit is
\* the inflation-indexed one, and the extracted listing carries it; "2.500"
\* in the inflation-indexed unit at rate 38000 gives 95000000.
C11_PriceNormalization ==
    \A i \in DOMAIN housesData :
        LET page == detailPage[housesData[i].url]
            clp  == convertIntoClp(OrElse(page.price, <<"0">>), OrElse(page.unit, <<>>))
        IN  WellFormedAmount(page.price) =>
                /\ ~clp.nan
                /\ clp.val >= 0
                /\ clp.val = ExpectedClp(page)
                /\ housesData[i].rentPrice = NatToString(ExpectedClp(page))
                /\ (page.price = <<"2", ".", "5", "0", "0">> /\ page.unit = <<"U", "F">>)
                       => clp.val = 95000000

\* C11's case: the listing of a page showing "2.500" in the
\* inflation-indexed unit has been extracted
C11_Witness ==
    /\ housesData # <<>>
    /\ detailPage[housesData[1].url].price = <<"2", ".", "5", "0", "0">>
    /\ detailPage[housesData[1].url].unit = <<"U", "F">>
    /\ housesData[1].rentPrice = <<"9", "5", "0", "0", "0", "0", "0", "0">>

\* C12. The seen-set only grows: across any sequence of runs, no step
\* removes a URL from a group's persisted seen-set; each group's persisted
\* seen-set after a step contains the one before.
C12_SeenSetOnlyGrows ==
    [][\A g \in Groups :
           dataStoreFile[g].alreadySeenHouses \subseteq dataStoreFile'[g].alreadySeenHouses]_vars

\* C12's case: the second group's update is done, after the first group's,
\* and its seen-set holds the configured URL next to the ones it collected
C12_Witness ==
    /\ pc = "next"
    /\ chatId = "g2"
    /\ queued["g1"] # <<>>
    /\ queued["g2"] # <<>>
    /\ InitialStore["g2"].alreadySeenHouses # {}
    /\ InitialStore["g2"].alreadySeenHouses \cup UrlsOf(queued["g2"])
           \subseteq dataStoreFile["g2"].alreadySeenHouses
    /\ UrlsOf(queued["g1"]) \subseteq dataStoreFile["g1"].alreadySeenHouses

\* the processed card positions of the current group whose detail page was
\* opened and whose extraction failed
FailedPos ==
    {pos \in ProcessedPos :
        /\ ~SkipsCard(UrlAt(pos), dataStore[chatId].alreadySeenHouses)
        /\ pos \notin okPos}

\* the URLs this run has added to the current group's persisted seen-set
AddedByRun ==
    dataStoreFile[chatId].alreadySeenHouses \ dataStore[chatId].alreadySeenHouses

\* C13, as claimed: the URL of a candidate whose extraction failed is not
\* added to the group's seen-set by that run.
C13_FailedUrlNotSeenClaimed ==
    InGroup => \A pos \in FailedPos : UrlAt(pos) \notin AddedByRun

\* a step in which the current candidate, not skipped, is processed and
\* not extracted: its extraction fails
ExtractionFailureStep ==
    /\ pc = "card" /\ ci <= Len(allHouseCards)
    /\ ~SkipsCard(CardUrl(allHouseCards[ci]), searchConfig.alreadySeenHouses)
    /\ <<li, ci>> \notin okPos'

\* C13, amended. A candidate whose extraction fails yields no listing, and
\* its URL is neither collected nor added to the seen-set by that run unless
\* another candidate with the same URL is extracted in the run; the failure
\* leaves the run at the next candidate of the same search page, with the
\* listings and the store as they were, and a group is done only when every
\* candidate of every search link of it has been processed.
C13_ExtractionFailureLocal ==
    /\ [](InGroup =>
            /\ pc = "card" => Len(housesData) = Cardinality({q \in okPos : q[1] = li})
            /\ \A pos \in FailedPos :
                   (\A q \in okPos : UrlAt(q) # UrlAt(pos)) =>
                       /\ UrlAt(pos) \notin UrlsOf(housesData) \cup UrlsOf(allHousesLinkData)
                       /\ UrlAt(pos) \notin AddedByRun
            /\ pc = "next" => ProcessedPos = AllPos)
    /\ [][ExtractionFailureStep =>
            /\ pc' = "card" /\ gi' = gi /\ li' = li /\ ci' = ci + 1
            /\ housesData' = housesData
            /\ allHousesLinkData' = allHousesLinkData
            /\ dataStoreFile' = dataStoreFile]_vars

\* C13's case: in the first group the extraction of listing a failed
\* wherever it was tried, a later candidate was collected and stored, and
\* the second group has been processed and has made a delivery call
C13_Witness ==
    /\ pc = "next"
    /\ chatId = "g2"
    /\ calls # <<>>
    /\ \E c \in DOMAIN searchPage["L1"] : searchPage["L1"][c] = UrlA
    /\ dataStore["g1"].alreadySeenHouses = {}
    /\ PassesBudget(MakeHouseData(UrlA, detailPage[UrlA]), dataStore["g1"].maxPrice)
    /\ UrlA \notin UrlsOf(queued["g1"])
    /\ queued["g1"] # <<>>
    /\ UrlsOf(queued["g1"]) \subseteq dataStoreFile["g1"].alreadySeenHouses
    /\ UrlA \notin dataStoreFile["g1"].alreadySeenHouses

\* C14, as claimed: the batching step returns for every configured chunk
\* size and every list of qualifying listings; a run is never left inside
\* chunkArray for good.
C14_ChunkingTerminatesClaimed ==
    pc # "hung"

\* a rent text that is empty or not numeric once its separators are removed
MalformedAmount(text) ==
    /\ text # Null
    /\ \/ RemoveDots(text) = <<>>
       \/ \E i \in DOMAIN text : text[i] \notin Digits \cup {"."}

\* C15, as claimed: an extracted listing whose rent text is malformed enters
\* the budget comparison with rent 0, so it is collected for the group if
\* and only if its maintenance fee (0 when absent) is strictly less than the
\* group's maximum total cost.
C15_ZeroFallbackClaimed ==
    InGroup =>
        \A pos \in okPos :
            LET page == detailPage[UrlAt(pos)]
            IN  (pos[1] < li /\ MalformedAmount(page.price)) =>
                    (UrlAt(pos) \in UrlsOf(allHousesLinkData)
                        <=> NormalizedFee(page) < searchConfig.maxPrice)

\* the maintenance-fee term of the budget comparison, as the filter of
\* retrieveHousesDataFromFilterLink computes it
FeeTerm(house) == ParseInt(OrElse(house.maintenanceFee, <<"0">>))

\* C16, as claimed: for every extracted listing whose fee text is made of
\* digits and separators, the fee term of the budget comparison is the value
\* of the text with its separators removed, and the listing is collected if
\* and only if its rent term plus that value is below the group's maximum.
C16_FeeNormalizedClaimed ==
    InGroup =>
        \A pos \in okPos :
            LET house == MakeHouseData(UrlAt(pos), detailPage[UrlAt(pos)])
                fee   == house.maintenanceFee
                rent  == ParseInt(OrElse(house.rentPrice, <<"0">>))
            IN  WellFormedAmount(fee) =>
                    /\ FeeTerm(house) = Num(NormalizedAmount(fee))
                    /\ pos[1] < li =>
                           (UrlAt(pos) \in UrlsOf(allHousesLinkData)
                               <=> JsLess(JsAdd(rent, Num(NormalizedAmount(fee))),
                                          Num(searchConfig.maxPrice)))

\* C17, as claimed: whenever the processing of a candidate is over, also
\* when its extraction failed after the page was opened, its detail page is
\* closed: between candidates no detail page is open, so that with the page
\* of the candidate being processed at most one is open.
C17_DetailPageClosedClaimed ==
    InGroup => openPages = 0

\* C18. markSeen frame: the step that marks a group's collected listings
\* merges their URLs into the group's seen-set of the store as persisted at
\* that moment (not as loaded at the start of the run), so that URLs someone
\* else has added since the load are kept, and leaves unchanged the group's
\* search links and maximum total cost and every other group's entry.
C18_MarkSeenFrame ==
    [][(pc = "send" /\ pc' = "next") =>
           /\ DOMAIN dataStoreFile' = DOMAIN dataStoreFile
           /\ \A g \in Groups \ {chatId} : dataStoreFile'[g] = dataStoreFile[g]
           /\ dataStoreFile'[chatId].searchLinks = dataStoreFile[chatId].searchLinks
           /\ dataStoreFile'[chatId].maxPrice = dataStoreFile[chatId].maxPrice
           /\ dataStoreFile'[chatId].alreadySeenHouses =
                  dataStoreFile[chatId].alreadySeenHouses \cup UrlsOf(allHousesLinkData)]_vars

\* C18's case: the group's update is done and its persisted seen-set holds
\* the listings it collected next to a URL that someone else added after
\* the run loaded the store, and another group's entry holds such a URL too
C18_Witness ==
    /\ pc = "next"
    /\ queued[chatId] # <<>>
    /\ UrlsOf(queued[chatId]) \subseteq dataStoreFile[chatId].alreadySeenHouses
    /\ \E u \in dataStoreFile[chatId].alreadySeenHouses :
           u \notin dataStore[chatId].alreadySeenHouses \cup UrlsOf(queued[chatId])
    /\ \E g \in LaterGroups :
           dataStoreFile[g].alreadySeenHouses # dataStore[g].alreadySeenHouses

====
